---- MODULE Spec2Model ----
(***************************************************************************)
(* Model of the reconciliation engine of app.py: process_data (rename,     *)
(* currency conversion, country translation, outer merge on the tracking   *)
(* number, derived metrics) and identify_issues (the four issue lists).    *)
(*                                                                         *)
(* A table (a pandas DataFrame) is a record [columns, rows]: the set of    *)
(* its column names and the sequence of its rows, each row a function from *)
(* the column names to cells.  A text cell is a string, the missing text   *)
(* cell is NA; a numeric cell is a record [kind, val] with val counted in  *)
(* thousandths, the missing numeric cell is NaN, and a division by zero    *)
(* gives PosInf or NegInf as float64 arithmetic does.                      *)
(***************************************************************************)
EXTENDS Integers, Sequences, FiniteSets, TLC

VARIABLES shipping_df, shopify_df, pc, error, merged_df, shipping_processed,
          shopify_processed, issues, screen

vars == <<shipping_df, shopify_df, pc, error, merged_df, shipping_processed,
          shopify_processed, issues, screen>>

(***************************************************************************)
(* Cells                                                                   *)
(***************************************************************************)
NA == "NaN"

NaN == [kind |-> "nan", val |-> 0]

PosInf == [kind |-> "inf", val |-> 1]

NegInf == [kind |-> "inf", val |-> -1]

Num(n) == [kind |-> "num", val |-> n]

\* 0.139, as a fraction
RMB_TO_USD == [num |-> 139, den |-> 1000]

\* The keys of COUNTRY_MAP and the carrier's column names are Chinese text;
\* a Chinese character is written here as its code point, U+XXXX.
COUNTRY_MAP ==
    ("U+7F8EU+56FD" :> "United States") @@
    ("U+82F1U+56FD" :> "United Kingdom") @@
    ("U+6FB3U+5927U+5229U+4E9A" :> "Australia") @@
    ("U+7231U+5C14U+5170" :> "Ireland") @@
    ("U+52A0U+62FFU+5927" :> "Canada") @@
    ("U+8377U+5170" :> "Netherlands") @@
    ("U+632AU+5A01" :> "Norway") @@
    ("U+963FU+8054U+914B" :> "United Arab Emirates") @@
    ("U+5FB7U+56FD" :> "Germany") @@
    ("U+4E39U+9EA6" :> "Denmark") @@
    ("U+4EE5U+8272U+5217" :> "Israel") @@
    ("U+745EU+5178" :> "Sweden") @@
    ("U+82ACU+5170" :> "Finland") @@
    ("U+745EU+58EB" :> "Switzerland") @@
    ("U+65B0U+897FU+5170" :> "New Zealand") @@
    ("U+6CD5U+56FD" :> "France") @@
    ("U+610FU+5927U+5229" :> "Italy") @@
    ("U+897FU+73EDU+7259" :> "Spain") @@
    ("U+6BD4U+5229U+65F6" :> "Belgium") @@
    ("U+5965U+5730U+5229" :> "Austria") @@
    ("U+6CE2U+5170" :> "Poland") @@
    ("U+8461U+8404U+7259" :> "Portugal") @@
    ("U+65E5U+672C" :> "Japan") @@
    ("U+97E9U+56FD" :> "South Korea") @@
    ("U+65B0U+52A0U+5761" :> "Singapore") @@
    ("U+9999U+6E2F" :> "Hong Kong") @@
    ("U+53F0U+6E7E" :> "Taiwan") @@
    ("U+9A6CU+6765U+897FU+4E9A" :> "Malaysia") @@
    ("U+6CF0U+56FD" :> "Thailand") @@
    ("U+5370U+5EA6" :> "India") @@
    ("U+58A8U+897FU+54E5" :> "Mexico") @@
    ("U+5DF4U+897F" :> "Brazil") @@
    ("U+5357U+975E" :> "South Africa") @@
    ("U+5E0CU+814A" :> "Greece") @@
    ("U+6377U+514B" :> "Czech Republic") @@
    ("U+5308U+7259U+5229" :> "Hungary") @@
    ("U+7F57U+9A6CU+5C3CU+4E9A" :> "Romania") @@
    ("U+65AFU+6D1BU+4F10U+514B" :> "Slovakia") @@
    ("U+65AFU+6D1BU+6587U+5C3CU+4E9A" :> "Slovenia") @@
    ("U+514BU+7F57U+5730U+4E9A" :> "Croatia") @@
    ("U+4FDDU+52A0U+5229U+4E9A" :> "Bulgaria") @@
    ("U+585EU+6D66U+8DEFU+65AF" :> "Cyprus") @@
    ("U+7231U+6C99U+5C3CU+4E9A" :> "Estonia") @@
    ("U+62C9U+8131U+7EF4U+4E9A" :> "Latvia") @@
    ("U+7ACBU+9676U+5B9B" :> "Lithuania") @@
    ("U+5362U+68EEU+5821" :> "Luxembourg") @@
    ("U+9A6CU+8033U+4ED6" :> "Malta") @@
    ("U+51B0U+5C9B" :> "Iceland") @@
    ("U+571FU+8033U+5176" :> "Turkey") @@
    ("U+4FC4U+7F57U+65AF" :> "Russia") @@
    ("U+4E4CU+514BU+5170" :> "Ukraine") @@
    ("U+6C99U+7279U+963FU+62C9U+4F2F" :> "Saudi Arabia") @@
    ("U+5361U+5854U+5C14" :> "Qatar") @@
    ("U+79D1U+5A01U+7279" :> "Kuwait") @@
    ("U+5DF4U+6797" :> "Bahrain") @@
    ("U+963FU+66FC" :> "Oman") @@
    ("U+83F2U+5F8BU+5BBE" :> "Philippines") @@
    ("U+5370U+5EA6U+5C3CU+897FU+4E9A" :> "Indonesia") @@
    ("U+8D8AU+5357" :> "Vietnam")

translate_country(chinese_name) ==
    IF chinese_name \in DOMAIN COUNTRY_MAP THEN COUNTRY_MAP[chinese_name]
    ELSE chinese_name

(***************************************************************************)
(* float64 arithmetic on numeric cells                                     *)
(***************************************************************************)
Abs(n) == IF n < 0 THEN -n ELSE n

Sign(n) == IF n < 0 THEN -1 ELSE 1

\* n / d rounded to the nearest integer, ties to the even one (numpy round)
RoundHalfEven(n, d) ==
    LET a == Abs(n)
        b == Abs(d)
        q == a \div b
        r == a % b
        m == IF 2 * r < b THEN q
             ELSE IF 2 * r > b THEN q + 1
             ELSE IF q % 2 = 0 THEN q ELSE q + 1
    IN  Sign(n) * Sign(d) * m

\* x * RMB_TO_USD
FMulRate(x, rate) ==
    IF x.kind = "num" THEN Num((x.val * rate.num) \div rate.den) ELSE x

\* a - b
FSub(a, b) ==
    IF a.kind = "nan" \/ b.kind = "nan" THEN NaN
    ELSE IF a.kind = "num" /\ b.kind = "num" THEN Num(a.val - b.val)
    ELSE IF a.kind = "inf" /\ b.kind = "inf"
         THEN (IF a.val = b.val THEN NaN ELSE a)
    ELSE IF a.kind = "inf" THEN a
    ELSE [kind |-> "inf", val |-> -b.val]

\* (a / b * 100).round(2)
PctRound2(a, b) ==
    IF a.kind = "nan" \/ b.kind = "nan" THEN NaN
    ELSE IF a.kind = "inf" /\ b.kind = "inf" THEN NaN
    ELSE IF a.kind = "inf"
         THEN [kind |-> "inf", val |-> a.val * Sign(b.val)]
    ELSE IF b.kind = "inf" THEN Num(0)
    ELSE IF b.val = 0
         THEN (IF a.val = 0 THEN NaN
               ELSE [kind |-> "inf", val |-> Sign(a.val)])
    ELSE Num(10 * RoundHalfEven(a.val * 10000, b.val))

(***************************************************************************)
(* Tables                                                                  *)
(***************************************************************************)
EmptyTable == [columns |-> {}, rows |-> <<>>]

ShippingRename ==
    ("U+7269U+6D41U+5355U+53F7" :> "tracking_number") @@
    ("U+6536U+8D27U+65F6U+95F4" :> "ship_date") @@
    ("U+603BU+91D1U+989D" :> "shipping_cost_rmb") @@
    ("U+56FDU+5BB6/U+8BA1U+8D39U+5206U+533A" :> "country_chinese") @@
    ("U+8BA1U+8D39U+91CD" :> "weight_kg") @@
    ("U+5BA2U+6237U+5355U+53F7" :> "internal_order_id")

ShopifyRename ==
    ("Order" :> "order_number") @@
    ("Order created at date" :> "order_date") @@
    ("Tracking number" :> "tracking_number") @@
    ("Net payout" :> "net_payout") @@
    ("Shipping country" :> "country") @@
    ("Cost" :> "product_cost")

RenameCol(c, mapping) == IF c \in DOMAIN mapping THEN mapping[c] ELSE c

\* df.rename(columns=mapping)
rename(df, mapping) ==
    LET newcols == {RenameCol(c, mapping) : c \in df.columns}
        OldOf(n) == CHOOSE c \in df.columns : RenameCol(c, mapping) = n
    IN  [columns |-> newcols,
         rows |-> [i \in DOMAIN df.rows |->
                     [n \in newcols |-> df.rows[i][OldOf(n)]]]]

\* df[cols]
select(df, cols) ==
    [columns |-> cols,
     rows |-> [i \in DOMAIN df.rows |-> [c \in cols |-> df.rows[i][c]]]]

\* the columns a numeric dtype holds; every other column holds text
NumericCols ==
    {"shipping_cost_rmb", "shipping_cost_usd", "weight_kg", "net_payout",
     "product_cost", "shipping_pct", "profit"}

NullOf(c) == IF c \in NumericCols THEN NaN ELSE NA

MergeCols ==
    {"tracking_number", "shipping_cost_usd", "shipping_cost_rmb", "weight_kg",
     "ship_date", "country_from_shipping"}

\* Matches, keeping one row of the right table for each key
Matches_first_only(l, right) ==
    LET m == SelectSeq(right.rows,
                       LAMBDA r : r["tracking_number"] = l["tracking_number"])
    IN  IF m = <<>> THEN <<>> ELSE <<m[1]>>

\* the rows of the right table whose key equals the key of left row l;
\* pandas pairs missing keys with each other like any other value
Matches(l, right) ==
    SelectSeq(right.rows,
              LAMBDA r : r["tracking_number"] = l["tracking_number"])

\* pd.merge(left, right, on='tracking_number', how='outer', indicator=True)
\* The rows come in the order of the left table, each with its matches, and
\* the unmatched rows of the right table follow; the properties below count
\* rows and compare lists taken from merged_df, so none depends on the order.
merge(left, right) ==
    LET allcols == left.columns \cup right.columns \cup {"_merge"}
        Both(l, r) ==
            [c \in allcols |->
               IF c = "_merge" THEN "both"
               ELSE IF c \in left.columns THEN l[c] ELSE r[c]]
        LeftOnly(l) ==
            [c \in allcols |->
               IF c = "_merge" THEN "left_only"
               ELSE IF c \in left.columns THEN l[c] ELSE NullOf(c)]
        RightOnly(r) ==
            [c \in allcols |->
               IF c = "_merge" THEN "right_only"
               ELSE IF c \in right.columns THEN r[c] ELSE NullOf(c)]
        RowsFor(l) ==
            LET m == Matches(l, right)
            IN  IF m = <<>> THEN <<LeftOnly(l)>>
                ELSE [j \in DOMAIN m |-> Both(l, m[j])]
        LeftRows[i \in 0..Len(left.rows)] ==
            IF i = 0 THEN <<>>
            ELSE LeftRows[i - 1] \o RowsFor(left.rows[i])
        Unmatched ==
            SelectSeq(right.rows, LAMBDA r : Matches(r, left) = <<>>)
    IN  [columns |-> allcols,
         rows |-> LeftRows[Len(left.rows)] \o
                  [j \in DOMAIN Unmatched |-> RightOnly(Unmatched[j])]]

\* df[name] = f(row), for the two columns process_data adds to shipping_df
WithUsd(df) ==
    [columns |-> df.columns \cup {"shipping_cost_usd"},
     rows |-> [i \in DOMAIN df.rows |->
                 [c \in df.columns \cup {"shipping_cost_usd"} |->
                    IF c = "shipping_cost_usd"
                    THEN FMulRate(df.rows[i]["shipping_cost_rmb"], RMB_TO_USD)
                    ELSE df.rows[i][c]]]]

WithCountry(df) ==
    [columns |-> df.columns \cup {"country_from_shipping"},
     rows |-> [i \in DOMAIN df.rows |->
                 [c \in df.columns \cup {"country_from_shipping"} |->
                    IF c = "country_from_shipping"
                    THEN translate_country(df.rows[i]["country_chinese"])
                    ELSE df.rows[i][c]]]]

shipping_pct(row) == PctRound2(row["shipping_cost_usd"], row["net_payout"])

\* profit, leaving the product cost out
profit_without_product_cost(row) ==
    FSub(row["net_payout"], row["shipping_cost_usd"])

profit(row) ==
    FSub(FSub(row["net_payout"], row["product_cost"]),
         row["shipping_cost_usd"])

WithMetrics(df) ==
    [columns |-> df.columns \cup {"shipping_pct", "profit"},
     rows |-> [i \in DOMAIN df.rows |->
                 [c \in df.columns \cup {"shipping_pct", "profit"} |->
                    IF c = "shipping_pct" THEN shipping_pct(df.rows[i])
                    ELSE IF c = "profit" THEN profit(df.rows[i])
                    ELSE df.rows[i][c]]]]

\* The frames the caller passed to process_data, as they are after the call.
\* rename (lines 199 and 215) returns a new frame and rebinds the local name,
\* so the assignments of lines 209 and 212 write to the new frame.
\* shipping_arg_after, had rename worked in place
shipping_arg_renamed_in_place(ship) ==
    WithCountry(WithUsd(rename(ship, ShippingRename)))

shipping_arg_after(ship) == ship

shopify_arg_after(shop) == shop

\* the KeyError process_data raises, "none" when it returns
process_data_error(ship, shop) ==
    LET s == rename(ship, ShippingRename).columns
        o == rename(shop, ShopifyRename).columns
    IN  IF "shipping_cost_rmb" \notin s THEN "KeyError: shipping_cost_rmb"
        ELSE IF "country_chinese" \notin s THEN "KeyError: country_chinese"
        ELSE IF ~(MergeCols \subseteq s \cup {"shipping_cost_usd",
                                              "country_from_shipping"})
             THEN "KeyError: not in index"
        ELSE IF "tracking_number" \notin o THEN "KeyError: tracking_number"
        ELSE IF "net_payout" \notin o THEN "KeyError: net_payout"
        ELSE IF "product_cost" \notin o THEN "KeyError: product_cost"
        ELSE "none"

\* the three tables process_data returns
process_data(ship, shop) ==
    LET s == WithCountry(WithUsd(rename(ship, ShippingRename)))
        o == rename(shop, ShopifyRename)
    IN  [merged_df |-> WithMetrics(merge(o, select(s, MergeCols))),
         shipping_df |-> s,
         shopify_df |-> o]

(***************************************************************************)
(* identify_issues                                                         *)
(***************************************************************************)
\* the characters of the tracking numbers the model uses
Chars ==
    ("4PX1" :> <<"4", "P", "X", "1">>) @@
    ("DHL9" :> <<"D", "H", "L", "9">>) @@
    ("S4PX" :> <<"S", "4", "P", "X">>)

\* str_contains, matching at the start of the cell only
str_startswith(s, pat) ==
    IF s = NA THEN FALSE
    ELSE LET cs == Chars[s]
         IN  Len(pat) <= Len(cs) /\ SubSeq(cs, 1, Len(pat)) = pat

\* Series.str.contains(pat, na=False), for one cell
str_contains(s, pat) ==
    IF s = NA THEN FALSE
    ELSE LET cs == Chars[s]
         IN  \E i \in 1..(Len(cs) - Len(pat) + 1) :
                SubSeq(cs, i, i + Len(pat) - 1) = pat

\* a != b on two text cells; a missing cell differs from every cell
Differs(a, b) == a = NA \/ b = NA \/ a # b

\* pd.notna on a text cell
notna(a) == a # NA

UnmatchedShipmentRows(merged) ==
    SelectSeq(merged.rows, LAMBDA row : row["_merge"] = "right_only")

\* UnmatchedOrderRows, whatever the _merge tag
UnmatchedOrderRows_any_tag(merged) ==
    SelectSeq(merged.rows,
              LAMBDA row : str_contains(row["tracking_number"],
                                        <<"4", "P", "X">>))

UnmatchedOrderRows(merged) ==
    SelectSeq(merged.rows,
              LAMBDA row : /\ row["_merge"] = "left_only"
                           /\ str_contains(row["tracking_number"],
                                           <<"4", "P", "X">>))

Column(df, c) == [i \in DOMAIN df.rows |-> df.rows[i][c]]

CountOf(s, v) == Cardinality({i \in DOMAIN s : s[i] = v})

\* the distinct cells of s, in the order they first occur
FirstSeen(s) ==
    LET F[i \in 0..Len(s)] ==
            IF i = 0 THEN <<>>
            ELSE IF \E j \in 1..(i - 1) : s[j] = s[i] THEN F[i - 1]
            ELSE Append(F[i - 1], s[i])
    IN  F[Len(s)]

\* Series.value_counts(): missing cells dropped, most frequent first
value_counts(s) ==
    LET vals == SelectSeq(FirstSeen(s), LAMBDA v : v # NA)
        Desc[k \in 0..Len(s)] ==
            IF k = 0 THEN <<>>
            ELSE Desc[k - 1] \o
                 SelectSeq(vals, LAMBDA v : CountOf(s, v) = Len(s) - k + 1)
        d == Desc[Len(s)]
    IN  [i \in DOMAIN d |-> [value |-> d[i], count |-> CountOf(s, d[i])]]

\* multi_orders, counting the distinct tracking numbers of an order
multi_orders_by_trackings(shopify) ==
    SelectSeq(value_counts(Column(shopify, "order_number")),
              LAMBDA e :
                 Cardinality({r["tracking_number"] :
                                r \in {shopify.rows[i] :
                                         i \in {j \in DOMAIN shopify.rows :
                                                  shopify.rows[j]["order_number"]
                                                     = e.value}}}) > 1)

\* order_counts[order_counts > 1]
multi_orders(shopify) ==
    SelectSeq(value_counts(Column(shopify, "order_number")),
              LAMBDA e : e.count > 1)

MultiTrackingEntry(shopify, e) ==
    LET order_rows ==
            SelectSeq(shopify.rows, LAMBDA r : r["order_number"] = e.value)
    IN  [order |-> e.value,
         count |-> e.count,
         trackings |-> [i \in DOMAIN order_rows |->
                          order_rows[i]["tracking_number"]],
         net_payout |-> order_rows[1]["net_payout"]]

\* CountryMismatchRows, without the pd.notna guard
CountryMismatchRows_unguarded(merged) ==
    LET matched == SelectSeq(merged.rows, LAMBDA row : row["_merge"] = "both")
    IN  SelectSeq(matched,
                  LAMBDA row : Differs(row["country"],
                                       row["country_from_shipping"]))

CountryMismatchRows(merged) ==
    LET matched == SelectSeq(merged.rows, LAMBDA row : row["_merge"] = "both")
        mismatches ==
            SelectSeq(matched,
                      LAMBDA row : Differs(row["country"],
                                           row["country_from_shipping"]))
    IN  SelectSeq(mismatches,
                  LAMBDA row : /\ notna(row["country"])
                               /\ notna(row["country_from_shipping"]))

NoIssues ==
    [unmatched_shipments |-> <<>>, unmatched_orders |-> <<>>,
     multi_tracking |-> <<>>, country_mismatch |-> <<>>]

(***************************************************************************)
(* What main has put on the page                                           *)
(***************************************************************************)
IssueTypes ==
    {"All Issues", "Unmatched Shipments", "Unmatched Orders",
     "Multi-Tracking Orders", "Country Mismatches"}

\* the issue lists the selector value lets through
Selected(issue_type) ==
    IF issue_type = "All Issues"
    THEN {"unmatched_shipments", "unmatched_orders", "multi_tracking",
          "country_mismatch"}
    ELSE IF issue_type = "Unmatched Shipments" THEN {"unmatched_shipments"}
    ELSE IF issue_type = "Unmatched Orders" THEN {"unmatched_orders"}
    ELSE IF issue_type = "Multi-Tracking Orders" THEN {"multi_tracking"}
    ELSE {"country_mismatch"}

BlankScreen == [rendered |-> {}, issue_type |-> "All Issues", sections |-> {}]

total_issues(iss) ==
    Len(iss.unmatched_shipments) + Len(iss.unmatched_orders)
       + Len(iss.multi_tracking) + Len(iss.country_mismatch)

matched_data(merged) ==
    SelectSeq(merged.rows, LAMBDA row : row["_merge"] = "both")

\* the sections the Issues tab shows
ShownSections(iss, issue_type) ==
    {s \in Selected(issue_type) : iss[s] # <<>>}
       \cup (IF total_issues(iss) = 0 THEN {"no_issues"} ELSE {})

display_cols ==
    {"order_number", "tracking_number", "country", "net_payout",
     "product_cost", "shipping_cost_usd", "shipping_pct", "profit",
     "order_date"}

export_cols ==
    {"order_number", "tracking_number", "order_date", "country",
     "net_payout", "product_cost", "shipping_cost_usd", "shipping_cost_rmb",
     "shipping_pct", "profit", "weight_kg"}

\* The frames the caller passed to identify_issues, as they are after the
\* call: the function filters them into new frames and reads rows.
issues_args_after(merged, shopify) == <<merged, shopify>>

\* the KeyError identify_issues raises, "none" when it returns
identify_issues_error(merged, shopify) ==
    LET uo == UnmatchedOrderRows(merged)
    IN  IF uo # <<>> /\ "order_number" \notin merged.columns
        THEN "KeyError: order_number"
        ELSE IF uo # <<>> /\ "country" \notin merged.columns
        THEN "KeyError: country"
        ELSE IF "order_number" \notin shopify.columns
        THEN "KeyError: order_number"
        ELSE IF "country" \notin merged.columns
        THEN "KeyError: country"
        ELSE "none"

identify_issues(merged, shopify) ==
    LET us == UnmatchedShipmentRows(merged)
        uo == UnmatchedOrderRows(merged)
        mo == multi_orders(shopify)
        cm == CountryMismatchRows(merged)
    IN  [unmatched_shipments |->
            [i \in DOMAIN us |->
               [tracking |-> us[i]["tracking_number"],
                shipping_cost |-> us[i]["shipping_cost_usd"],
                ship_date |-> us[i]["ship_date"],
                country |-> us[i]["country_from_shipping"]]],
         unmatched_orders |->
            [i \in DOMAIN uo |->
               [order |-> uo[i]["order_number"],
                tracking |-> uo[i]["tracking_number"],
                net_payout |-> uo[i]["net_payout"],
                country |-> uo[i]["country"]]],
         multi_tracking |->
            [i \in DOMAIN mo |-> MultiTrackingEntry(shopify, mo[i])],
         country_mismatch |->
            [i \in DOMAIN cm |->
               [order |-> cm[i]["order_number"],
                tracking |-> cm[i]["tracking_number"],
                shopify_country |-> cm[i]["country"],
                shipping_country |-> cm[i]["country_from_shipping"]]]]

(***************************************************************************)
(* The input tables of a run                                               *)
(***************************************************************************)
MaxShipments == 2

MaxOrders == 2

ShippingCols == DOMAIN ShippingRename

ShopifyCols == DOMAIN ShopifyRename

TrackingKeys == DOMAIN Chars

SeqsUpTo(S, n) == UNION {[1..k -> S] : k \in 0..n}

ShipRow(tracking, cost_rmb, country) ==
    ("U+7269U+6D41U+5355U+53F7" :> tracking) @@
    ("U+6536U+8D27U+65F6U+95F4" :> "2024-01-05") @@
    ("U+603BU+91D1U+989D" :> cost_rmb) @@
    ("U+56FDU+5BB6/U+8BA1U+8D39U+5206U+533A" :> country) @@
    ("U+8BA1U+8D39U+91CD" :> Num(500)) @@
    ("U+5BA2U+6237U+5355U+53F7" :> "R1")

OrderRow(order, tracking, payout, cost, country) ==
    ("Order" :> order) @@
    ("Order created at date" :> "2024-01-02") @@
    ("Tracking number" :> tracking) @@
    ("Net payout" :> payout) @@
    ("Shipping country" :> country) @@
    ("Cost" :> cost)

\* rows that differ in their keys
JoinShipments ==
    {ShipRow(t, Num(100000), "U+7F8EU+56FD") : t \in TrackingKeys \cup {NA}}

JoinOrders ==
    {OrderRow(o, t, Num(50000), Num(10000), "United States") :
        o \in {"O1", "O2"}, t \in TrackingKeys \cup {NA}}

\* rows that differ in their amounts
MetricShipments ==
    {ShipRow("4PX1", c, "U+7F8EU+56FD") : c \in {NaN, Num(0), Num(100000)}}

MetricOrders ==
    {OrderRow("O1", "4PX1", n, p, "United States") :
        n \in {NaN, Num(0), Num(50000), Num(30000)}, p \in {NaN, Num(10000)}}

\* order rows that share order numbers
MultiShipments == {ShipRow("4PX1", Num(100000), "U+7F8EU+56FD")}

MultiOrders ==
    {OrderRow(o, t, n, Num(10000), "United States") :
        o \in {"O1", "O2", NA}, t \in {"4PX1", "DHL9"},
        n \in {Num(50000), Num(30000)}}

\* rows that differ in their countries
CountryShipments ==
    {ShipRow("4PX1", Num(100000), l) : l \in {"U+7F8EU+56FD", "Canada", NA}}

CountryOrders ==
    {OrderRow("O1", t, Num(50000), Num(10000), c) :
        t \in {"4PX1", "DHL9"}, c \in {"United States", "Canada", NA}}

\* rows that leave a shipment and an order unmatched beside a matched pair
MixedShipments ==
    {ShipRow(t, Num(100000), "Canada") : t \in {"4PX1", "DHL9"}}

MixedOrders ==
    {OrderRow("O1", t, Num(50000), Num(10000), "United States") :
        t \in {"4PX1", "S4PX"}}

Table(cols, rows) ==
    [columns |-> cols,
     rows |-> [i \in DOMAIN rows |-> [c \in cols |-> rows[i][c]]]]

InitTables(ships, orders) ==
    /\ shipping_df \in {Table(ShippingCols, r) :
                          r \in SeqsUpTo(ships, MaxShipments)}
    /\ shopify_df \in {Table(ShopifyCols, r) :
                         r \in SeqsUpTo(orders, MaxOrders)}

\* one row in each file, any of the columns absent from either file
InitColumns ==
    /\ shipping_df \in
         {Table(cols, <<ShipRow("4PX1", Num(100000), "U+7F8EU+56FD")>>) :
            cols \in SUBSET ShippingCols}
    /\ shopify_df \in
         {Table(cols, <<OrderRow("O1", t, Num(50000), Num(10000),
                                 "United States")>>) :
            cols \in SUBSET ShopifyCols, t \in {"4PX1", "S4PX"}}

Init ==
    /\ \/ InitTables(JoinShipments, JoinOrders)
       \/ InitTables(MetricShipments, MetricOrders)
       \/ InitTables(MultiShipments, MultiOrders)
       \/ InitTables(CountryShipments, CountryOrders)
       \/ InitTables(MixedShipments, MixedOrders)
       \/ InitColumns
    /\ pc = "start"
    /\ error = "none"
    /\ merged_df = EmptyTable
    /\ shipping_processed = EmptyTable
    /\ shopify_processed = EmptyTable
    /\ issues = NoIssues
    /\ screen = BlankScreen

(***************************************************************************)
(* main: the two calls inside its try block, then the four tabs            *)
(***************************************************************************)
ProcessData ==
    /\ pc = "start"
    /\ LET e == process_data_error(shipping_df, shopify_df)
       IN  IF e # "none"
           THEN /\ pc' = "error"
                /\ error' = e
                /\ UNCHANGED <<shipping_df, shopify_df, merged_df,
                               shipping_processed, shopify_processed>>
           ELSE LET r == process_data(shipping_df, shopify_df)
                IN  /\ pc' = "processed"
                    /\ merged_df' = r.merged_df
                    /\ shipping_processed' = r.shipping_df
                    /\ shopify_processed' = r.shopify_df
                    /\ shipping_df' = shipping_arg_after(shipping_df)
                    /\ shopify_df' = shopify_arg_after(shopify_df)
                    /\ UNCHANGED error
    /\ UNCHANGED <<issues, screen>>

IdentifyIssues ==
    /\ pc = "processed"
    /\ LET e == identify_issues_error(merged_df, shopify_processed)
       IN  IF e # "none"
           THEN /\ pc' = "error"
                /\ error' = e
                /\ UNCHANGED <<issues, merged_df, shopify_processed>>
           ELSE /\ pc' = "done"
                /\ issues' = identify_issues(merged_df, shopify_processed)
                /\ merged_df' = issues_args_after(merged_df,
                                                  shopify_processed)[1]
                /\ shopify_processed' = issues_args_after(merged_df,
                                                          shopify_processed)[2]
                /\ UNCHANGED error
    /\ UNCHANGED <<shipping_df, shopify_df, shipping_processed, screen>>

\* tab 1: main returns from inside the tab when no merged row is matched
RenderDashboard ==
    /\ pc = "done"
    /\ IF matched_data(merged_df) = <<>>
       THEN /\ pc' = "returned"
            /\ screen' = [screen EXCEPT !.rendered = @ \cup {"warning"}]
       ELSE /\ pc' = "tab2"
            /\ screen' = [screen EXCEPT !.rendered = @ \cup {"dashboard"}]
    /\ UNCHANGED <<shipping_df, shopify_df, error, merged_df,
                   shipping_processed, shopify_processed, issues>>

\* tab 2: the four counts, the selector and the non-empty lists it lets through
RenderIssues ==
    /\ pc = "tab2"
    /\ \E issue_type \in IssueTypes :
          screen' = [rendered |-> screen.rendered \cup {"issues"},
                     issue_type |-> issue_type,
                     sections |-> ShownSections(issues, issue_type)]
    /\ pc' = "tab3"
    /\ UNCHANGED <<shipping_df, shopify_df, error, merged_df,
                   shipping_processed, shopify_processed, issues>>

\* tab 3: naming the nine display columns raises ValueError, outside the try
\* block, when merged_df lacks one of them
RenderDataTable ==
    /\ pc = "tab3"
    /\ IF display_cols \subseteq merged_df.columns
       THEN /\ pc' = "tab4"
            /\ screen' = [screen EXCEPT !.rendered = @ \cup {"table"}]
            /\ UNCHANGED error
       ELSE /\ pc' = "crashed"
            /\ error' = "ValueError: Length mismatch"
            /\ UNCHANGED screen
    /\ UNCHANGED <<shipping_df, shopify_df, merged_df, shipping_processed,
                   shopify_processed, issues>>

\* tab 4: the same for the eleven export columns
RenderExport ==
    /\ pc = "tab4"
    /\ IF export_cols \subseteq merged_df.columns
       THEN /\ pc' = "finished"
            /\ screen' = [screen EXCEPT !.rendered = @ \cup {"export"}]
            /\ UNCHANGED error
       ELSE /\ pc' = "crashed"
            /\ error' = "ValueError: Length mismatch"
            /\ UNCHANGED screen
    /\ UNCHANGED <<shipping_df, shopify_df, merged_df, shipping_processed,
                   shopify_processed, issues>>

Next ==
    \/ ProcessData
    \/ IdentifyIssues
    \/ RenderDashboard
    \/ RenderIssues
    \/ RenderDataTable
    \/ RenderExport

Spec == Init /\ [][Next]_vars

(***************************************************************************)
(* Properties                                                              *)
(***************************************************************************)
Processed == pc \in {"processed", "done"}

\* the tracking cells of the two tables given to process_data
ShipKeys == Column(shipping_df, "U+7269U+6D41U+5355U+53F7")

OrderKeys == Column(shopify_df, "Tracking number")

MergedWithKey(k) ==
    SelectSeq(merged_df.rows, LAMBDA row : row["tracking_number"] = k)

Tagged(k, tag) ==
    Len(SelectSeq(MergedWithKey(k), LAMBDA row : row["_merge"] = tag))

\* C1: a tracking number that occurs in both tables has
\* (shipment rows with it) x (order rows with it) merged rows, all of them
\* tagged 'both'.
C1_JoinCardinality ==
    Processed =>
        \A k \in TrackingKeys :
            (CountOf(ShipKeys, k) > 0 /\ CountOf(OrderKeys, k) > 0) =>
                /\ Len(MergedWithKey(k))
                      = CountOf(ShipKeys, k) * CountOf(OrderKeys, k)
                /\ Tagged(k, "both") = Len(MergedWithKey(k))

\* two shipment rows and two order rows share a tracking number
C1_Witness ==
    /\ Processed
    /\ \E k \in TrackingKeys :
          /\ CountOf(ShipKeys, k) = 2
          /\ CountOf(OrderKeys, k) = 2
          /\ Tagged(k, "both") = 4

\* C2: a row whose tracking number is missing is never joined: the merged
\* result holds it once, as right_only (shipment) or left_only (order), and
\* no merged row with a missing tracking number is tagged 'both'.
C2_NullKeyNeverJoined ==
    Processed =>
        /\ Tagged(NA, "both") = 0
        /\ Tagged(NA, "right_only") = CountOf(ShipKeys, NA)
        /\ Tagged(NA, "left_only") = CountOf(OrderKeys, NA)

\* C3: shipping_pct is missing on every merged row whose net_payout is
\* missing or zero.
C3_PctNullOnZeroPayout ==
    Processed =>
        \A i \in DOMAIN merged_df.rows :
            LET row == merged_df.rows[i]
            IN  (row["net_payout"] = NaN \/ row["net_payout"] = Num(0)) =>
                    row["shipping_pct"] = NaN

RECURSIVE SumOfProducts(_)
SumOfProducts(keys) ==
    IF keys = {} THEN 0
    ELSE LET k == CHOOSE x \in keys : TRUE
         IN  CountOf(ShipKeys, k) * CountOf(OrderKeys, k)
                + SumOfProducts(keys \ {k})

MatchedKeys ==
    {k \in TrackingKeys : CountOf(ShipKeys, k) > 0 /\ CountOf(OrderKeys, k) > 0}

UnmatchedShipments ==
    Cardinality({i \in DOMAIN ShipKeys : ShipKeys[i] \notin MatchedKeys})

UnmatchedOrders ==
    Cardinality({i \in DOMAIN OrderKeys : OrderKeys[i] \notin MatchedKeys})

MergedTagged(tag) ==
    Len(SelectSeq(merged_df.rows, LAMBDA row : row["_merge"] = tag))

\* C4: no row is lost: the merged result has one row for each pairing of a
\* shipment row and an order row with the same tracking number, and one
\* right_only or left_only row for each row without a counterpart.
C4_NoRowLost ==
    Processed =>
        /\ MergedTagged("both") = SumOfProducts(MatchedKeys)
        /\ MergedTagged("right_only") = UnmatchedShipments
        /\ MergedTagged("left_only") = UnmatchedOrders
        /\ Len(merged_df.rows)
              = SumOfProducts(MatchedKeys) + UnmatchedShipments
                   + UnmatchedOrders

RequiredColumnsPresent ==
    /\ {"U+7269U+6D41U+5355U+53F7", "U+603BU+91D1U+989D"}
          \subseteq shipping_df.columns
    /\ {"Tracking number", "Net payout"} \subseteq shopify_df.columns

\* C5: the run is aborted only when a required column (tracking number,
\* shipment cost, net payout) is missing from the input.
C5_OnlyRequiredAborts == pc = "error" => ~RequiredColumnsPresent

OrderNumbers == {"O1", "O2"}

EntriesOf(o) == SelectSeq(issues.multi_tracking, LAMBDA e : e.order = o)

RowsOfOrder(o) == SelectSeq(shopify_df.rows, LAMBDA r : r["Order"] = o)

\* C6: an order number has an entry in multi_tracking iff at least two order
\* rows carry it, whatever their tracking numbers; it has one entry, whose
\* count is that number of rows.
C6_MultiTrackingIff ==
    pc = "done" =>
        /\ \A o \in OrderNumbers :
              IF Len(RowsOfOrder(o)) >= 2
              THEN /\ Len(EntriesOf(o)) = 1
                   /\ EntriesOf(o)[1].count = Len(RowsOfOrder(o))
              ELSE EntriesOf(o) = <<>>
        /\ \A i \in DOMAIN issues.multi_tracking :
              issues.multi_tracking[i].order \in OrderNumbers

\* an order is flagged whose two rows carry the same tracking cell
C6_Witness ==
    /\ pc = "done"
    /\ \E o \in OrderNumbers :
          /\ Len(RowsOfOrder(o)) = 2
          /\ RowsOfOrder(o)[1]["Tracking number"]
                = RowsOfOrder(o)[2]["Tracking number"]
          /\ Len(EntriesOf(o)) = 1

\* C7: the trackings of a multi_tracking entry are the distinct tracking
\* numbers of the order's rows, each once, in source order, and its
\* net_payout is the payout of the first of those rows.
C7_DistinctTrackings ==
    pc = "done" =>
        \A i \in DOMAIN issues.multi_tracking :
            LET e == issues.multi_tracking[i]
                rows == RowsOfOrder(e.order)
            IN  /\ e.trackings
                      = FirstSeen([j \in DOMAIN rows |->
                                     rows[j]["Tracking number"]])
                /\ e.net_payout = rows[1]["Net payout"]

\* the tracking numbers of the model that contain "4PX"
Keys4PX == {"4PX1", "S4PX"}

ListedOrderRows ==
    SelectSeq(merged_df.rows,
              LAMBDA row : /\ row["_merge"] = "left_only"
                           /\ row["tracking_number"] # NA
                           /\ row["tracking_number"] \in Keys4PX)

\* C8: unmatched_orders lists exactly the left_only merged rows whose
\* tracking number is present and contains "4PX"; a left_only row with
\* another or a missing tracking number is not listed.
C8_UnmatchedOrdersIff ==
    pc = "done" =>
        /\ issues.unmatched_orders
              = [i \in DOMAIN ListedOrderRows |->
                   [order |-> ListedOrderRows[i]["order_number"],
                    tracking |-> ListedOrderRows[i]["tracking_number"],
                    net_payout |-> ListedOrderRows[i]["net_payout"],
                    country |-> ListedOrderRows[i]["country"]]]
        /\ \A i \in DOMAIN issues.unmatched_orders :
              issues.unmatched_orders[i].tracking \notin {NA, "DHL9"}

\* one left_only row with "4PX" inside its tracking number is listed, one
\* left_only row with "DHL9" is not
C8_Witness ==
    /\ pc = "done"
    /\ Tagged("DHL9", "left_only") = 1
    /\ Tagged("S4PX", "left_only") = 1
    /\ Len(issues.unmatched_orders) = 1
    /\ issues.unmatched_orders[1].tracking = "S4PX"

FlaggedRows ==
    SelectSeq(merged_df.rows,
              LAMBDA row : /\ row["_merge"] = "both"
                           /\ row["country"] # NA
                           /\ row["country_from_shipping"] # NA
                           /\ row["country"] # row["country_from_shipping"])

ShipLabels == Column(shipping_df, "U+56FDU+5BB6/U+8BA1U+8D39U+5206U+533A")

OrderCountries == Column(shopify_df, "Shipping country")

\* C9: country_mismatch lists exactly the matched merged rows whose two
\* countries are both present and unequal; a shipment label that translates
\* to the order's country is not a mismatch.
C9_CountryMismatchIff ==
    pc = "done" =>
        /\ issues.country_mismatch
              = [i \in DOMAIN FlaggedRows |->
                   [order |-> FlaggedRows[i]["order_number"],
                    tracking |-> FlaggedRows[i]["tracking_number"],
                    shopify_country |-> FlaggedRows[i]["country"],
                    shipping_country |->
                       FlaggedRows[i]["country_from_shipping"]]]
        /\ ( /\ \A i \in DOMAIN ShipLabels : ShipLabels[i] = "U+7F8EU+56FD"
             /\ \A i \in DOMAIN OrderCountries :
                   OrderCountries[i] = "United States" )
           => issues.country_mismatch = <<>>

\* matched rows of all three kinds: a missing country, a label translated
\* to the order's country, and a mismatch that is flagged
C9_Witness ==
    /\ pc = "done"
    /\ \E i \in DOMAIN merged_df.rows :
          /\ merged_df.rows[i]["_merge"] = "both"
          /\ merged_df.rows[i]["country_from_shipping"] = NA
    /\ \E i \in DOMAIN merged_df.rows :
          /\ merged_df.rows[i]["_merge"] = "both"
          /\ merged_df.rows[i]["country"] = "United States"
          /\ merged_df.rows[i]["country_from_shipping"] = "United States"
    /\ Len(issues.country_mismatch) = 1
    /\ issues.country_mismatch[1].shopify_country = "Canada"
    /\ issues.country_mismatch[1].shipping_country = "United States"

\* C10: profit is net_payout - product_cost - shipping_cost_usd when the
\* three are present and missing otherwise, so it is missing on every
\* right_only and every left_only row.
C10_Profit ==
    Processed =>
        \A i \in DOMAIN merged_df.rows :
            LET row == merged_df.rows[i]
                n == row["net_payout"]
                p == row["product_cost"]
                s == row["shipping_cost_usd"]
            IN  /\ (n.kind = "num" /\ p.kind = "num" /\ s.kind = "num") =>
                      row["profit"] = Num(n.val - p.val - s.val)
                /\ (n = NaN \/ p = NaN \/ s = NaN) => row["profit"] = NaN
                /\ row["_merge"] # "both" => row["profit"] = NaN

\* the matched row of the scenario has profit 26.1, and a row without a
\* product cost has none
C10_Witness ==
    /\ Processed
    /\ \E i \in DOMAIN merged_df.rows :
          /\ merged_df.rows[i]["_merge"] = "both"
          /\ merged_df.rows[i]["shipping_cost_usd"] = Num(13900)
          /\ merged_df.rows[i]["shipping_pct"] = Num(27800)
          /\ merged_df.rows[i]["profit"] = Num(26100)
    /\ \E i \in DOMAIN merged_df.rows :
          /\ merged_df.rows[i]["_merge"] = "both"
          /\ merged_df.rows[i]["product_cost"] = NaN
          /\ merged_df.rows[i]["net_payout"] = Num(50000)
          /\ merged_df.rows[i]["profit"] = NaN

IssueLists ==
    {"unmatched_shipments", "unmatched_orders", "multi_tracking",
     "country_mismatch"}

\* C12: when both files were processed without an exception, main runs to
\* its end and has rendered the Issues tab, with every non-empty issue list
\* under the default selector value, also when no merged row is matched.
C12_IssuesPresented ==
    pc \in {"returned", "crashed", "finished"} =>
        /\ pc = "finished"
        /\ "issues" \in screen.rendered
        /\ screen.issue_type = "All Issues" =>
              \A s \in IssueLists : issues[s] # <<>> => s \in screen.sections

\* C13: unmatched_shipments, unmatched_orders and country_mismatch take their
\* entries from the right_only, the left_only and the 'both' merged rows, at
\* most one entry a row, so their sizes sum to at most the number of rows.
C13_OneListPerRow ==
    pc \in {"done", "returned", "tab2", "tab3", "tab4", "crashed", "finished"}
    =>  /\ Len(issues.unmatched_shipments) <= MergedTagged("right_only")
        /\ Len(issues.unmatched_orders) <= MergedTagged("left_only")
        /\ Len(issues.country_mismatch) <= MergedTagged("both")
        /\ \A i \in DOMAIN issues.unmatched_orders :
              Tagged(issues.unmatched_orders[i].tracking, "left_only") > 0
        /\ \A i \in DOMAIN issues.country_mismatch :
              Tagged(issues.country_mismatch[i].tracking, "both") > 0
        /\ Len(issues.unmatched_shipments) + Len(issues.unmatched_orders)
              + Len(issues.country_mismatch) <= Len(merged_df.rows)

\* three merged rows, one in each of the three lists
C13_Witness ==
    /\ pc = "done"
    /\ Len(merged_df.rows) = 3
    /\ Len(issues.unmatched_shipments) = 1
    /\ Len(issues.unmatched_orders) = 1
    /\ Len(issues.country_mismatch) = 1
====
